---- MODULE Spec2Model ----
(***************************************************************************)
(* Model of pkg/credentials/provider/updater.go: the Updater, a one-slot   *)
(* credential cache with a synchronous refresh path (Credentials) and an   *)
(* optional background refresh loop (Start / startRefreshLoop).            *)
(*                                                                         *)
(* Time is counted in whole seconds.  A time.Time is a record              *)
(* [wall, mono]: the wall-clock second and whether the value carries a     *)
(* monotonic clock reading.  A Credentials value is a record               *)
(* [nil, key, exp]: key stands for the three key strings, exp is the       *)
(* Expiration.  The fetch capability names each credential after its raw   *)
(* expiration (key = raw wall second), so that the raw expiration of any   *)
(* stored or returned credential can be read back from its key and a mix   *)
(* of fields of two credentials is recognisable.                           *)
(*                                                                         *)
(* Specifications:                                                         *)
(*   Spec          two callers and the loop, MaxTime seconds               *)
(*   SpecLoop      one caller and the loop, MaxTimeLoop seconds, with the  *)
(*                 history of the loop's refresh cycles                    *)
(*   SpecSteady    as SpecLoop with a fetch that always succeeds with the  *)
(*                 long lifetime, with the history of the refreshes' timing*)
(*   SpecNotEnable as SpecLoop with a fetch that always returns            *)
(*                 *NotEnableError                                         *)
(*   SpecLive      one caller and the loop, MaxTime seconds, under fair    *)
(*                 scheduling                                              *)
(***************************************************************************)
EXTENDS Integers, FiniteSets, Sequences, TLC

\* ---------------------------------------------------------------- bounds
MaxTime == 3                      \* the clock runs from 1 to MaxTime
Callers == {"c1", "c2"}           \* goroutines calling Credentials(ctx)
Windows == {0, 1}                 \* UpdaterOptions.ExpiryWindow, seconds
Periods == {0 - 2, 0, 2}          \* UpdaterOptions.RefreshPeriod, seconds
Lifetimes == {1, 3}               \* raw expiration of a fetched credential, from now
\* whether a fetched Expiration carries a monotonic clock reading: with one,
\* Round(0) has something to strip; without one it changes nothing
Monos == {TRUE}
\* the specifications that follow the background loop over a longer time
MaxTimeLoop == 7                  \* their clock runs from 1 to MaxTimeLoop
LoopCallers == {"c1"}             \* their callers of Credentials(ctx)
LifetimesLoop == {3, 5}           \* their fetched lifetimes
LifetimesSteady == {5}            \* a fetch that always gives the long lifetime

\* ------------------------------------------------------------- constants
Loop == "loop"                    \* the goroutine running startRefreshLoop
Procs == Callers \cup {Loop}
None == "none"                    \* no lock holder
ErrNone == "nil"                  \* err == nil
ErrNotEnable == "NotEnableError"  \* *NotEnableError
ErrOther == "error"               \* any other error

ZeroTime == [wall |-> 0, mono |-> FALSE]
NilCred == [nil |-> TRUE, key |-> 0, exp |-> ZeroTime]
\* what a caller makes of a credential it overwrites: no fetch returns this key
Scribbled == [nil |-> FALSE, key |-> 0 - 1, exp |-> ZeroTime]
maxRetry == 5
Second == 1

VARIABLES
  now,            \* wall clock second, what u.now() returns
  expiryWindow,   \* u.expiryWindow
  refreshPeriod,  \* u.refreshPeriod
  cred,           \* what u.cred points to (NilCred: u.cred == nil)
  lockForCred,    \* [w: the goroutine holding Lock or None, r: the RLock holders]
  pc,             \* where each goroutine is
  fetched,        \* per goroutine: the *Credentials its getCredentials returned
  sawExpired,     \* per caller: what u.Expired() returned in its current or last call
  nfetch,         \* per caller: getCredentials invocations of its current or last call
  fetchErr,       \* per caller: the error getCredentials returned in its current or last call
  ret,            \* per caller: what its last Credentials(ctx) returned
  started,        \* Start(ctx) has been called
  loops,          \* background goroutines launched so far
  cancelled,      \* ctx.Done() of the context given to Start is closed
  i,              \* refreshCredForLoop's retry index (0 outside its for loop)
  wakeAt,         \* when the loop's time.Sleep returns (0 when not sleeping)
  tickPending,    \* a tick is buffered in ticket.C
  nextTick,       \* when the ticker fires next
  \* history of the run, kept by the specifications that name it
  cycles,         \* refreshCredForLoop calls begun so far
  attempts,       \* getCredentials invocations of the refreshCredForLoop call in progress
  sleeps,         \* the time.Sleep durations of the refreshCredForLoop call in progress
  cycleEnd,       \* how the last refreshCredForLoop call returned ("none" while one runs)
  late,           \* the clock has advanced while a tick waited to be taken and examined
  slow,           \* the clock has advanced while a fetch or its store was outstanding
  overlapped      \* a fetch has been invoked while another was in flight

vars == <<now, expiryWindow, refreshPeriod, cred, lockForCred, pc, fetched,
          sawExpired, nfetch, fetchErr, ret, started, loops, cancelled, i,
          wakeAt, tickPending, nextTick, cycles, attempts, sleeps, cycleEnd,
          late, slow, overlapped>>

history == <<cycles, attempts, sleeps, cycleEnd, late, slow, overlapped>>
config == <<expiryWindow, refreshPeriod>>
loopVars == <<started, loops, cancelled, i, wakeAt, tickPending, nextTick>>
ghost == <<sawExpired, nfetch, fetchErr>>

\* ------------------------------------------------------------ time.Time
Add(t, d) == [t EXCEPT !.wall = @ + d]
Round0(t) == [t EXCEPT !.mono = FALSE]
Before(t, u) == t.wall < u.wall
Now == [wall |-> now, mono |-> TRUE]

\* NewUpdater that forgets the half period
expiryWindowForRefreshLoopPeriod == refreshPeriod

\* NewUpdater that gives the loop only half a period of margin
expiryWindowForRefreshLoopHalf == refreshPeriod \div 2

\* NewUpdater: opts.RefreshPeriod + opts.RefreshPeriod/2
expiryWindowForRefreshLoop == refreshPeriod + (refreshPeriod \div 2)

NoRet == [kind |-> "none", err |-> ErrNone, val |-> NilCred, aliased |-> FALSE]

Init ==
  /\ now = 1
  /\ expiryWindow \in Windows
  /\ refreshPeriod \in Periods
  /\ cred = NilCred
  /\ lockForCred = [w |-> None, r |-> {}]
  /\ pc = [p \in Procs |-> IF p = Loop THEN "off" ELSE "idle"]
  /\ fetched = [p \in Procs |-> NilCred]
  /\ sawExpired = [c \in Callers |-> FALSE]
  /\ nfetch = [c \in Callers |-> 0]
  /\ fetchErr = [c \in Callers |-> ErrNone]
  /\ ret = [c \in Callers |-> NoRet]
  /\ started = FALSE
  /\ loops = 0
  /\ cancelled = FALSE
  /\ i = 0
  /\ wakeAt = 0
  /\ tickPending = FALSE
  /\ nextTick = 0
  /\ cycles = 0
  /\ attempts = 0
  /\ sleeps = <<>>
  /\ cycleEnd = "none"
  /\ late = FALSE
  /\ slow = FALSE
  /\ overlapped = FALSE

\* ---------------------------------------------------------- sync.RWMutex
\* RLock that does not wait for the writer
CanRLockAlways(p) == TRUE

\* RLock of a mutex that admits one holder at a time
CanRLockExclusive(p) == lockForCred.w = None /\ lockForCred.r = {}

CanRLock(p) == lockForCred.w = None
CanLock(p) == lockForCred.w = None /\ lockForCred.r = {}
RLock(p) == [lockForCred EXCEPT !.r = @ \cup {p}]
RUnlock(p) == [lockForCred EXCEPT !.r = @ \ {p}]

\* ----------------------------------------------------------- Credentials
DeepCopy(c) == [nil |-> c.nil, key |-> c.key, exp |-> c.exp]

\* setCred: the value u.cred is made to point to
Stored(c) ==
  LET copy == DeepCopy(c)
      e == Round0(copy.exp)
  IN [copy EXCEPT !.exp = IF expiryWindow > 0 THEN Add(e, -expiryWindow) ELSE e]

\* getCred's read of u.cred.  Under the read lock no writer is inside setCred and
\* the read yields the stored value.  A read made while another goroutine is
\* inside setCred's critical section is a data race: it may yield the old value,
\* the new one, or the new object before all of its fields are visible.
Load(p) ==
  IF lockForCred.w \notin {None, p}
  THEN LET n == Stored(fetched[lockForCred.w])
       IN {cred, n, [n EXCEPT !.exp = ZeroTime], [n EXCEPT !.key = 0]}
  ELSE {cred}

\* u.expiration() on the credential getCred returned
expiration(c) == IF c.nil THEN ZeroTime ELSE Round0(c.exp)

\* expired with !After in place of Before
expiredNotAfter(c, expiryDelta) == ~Before(Now, Add(expiration(c), -expiryDelta))

\* u.expired(expiryDelta) on the credential getCred returned
expired(c, expiryDelta) == Before(Add(expiration(c), -expiryDelta), Now)

\* u.Expired() in the current state
Expired == expired(cred, 0)

\* Credentials that refreshes on every call
AfterExpiredAlways(e) == "fetching"

\* Credentials: where the call goes after u.Expired()
AfterExpired(e) == IF e THEN "fetching" ELSE "get"

\* Credentials that calls refreshCred again after an error that is not *NotEnableError
AfterRefreshRetry(err) ==
  IF err = ErrOther THEN "fetching" ELSE IF err # ErrNone THEN "idle" ELSE "get"

\* Credentials: where the call goes after refreshCred returned err
AfterRefresh(err) == IF err # ErrNone THEN "idle" ELSE "get"

\* refreshCred that drops the stored credential when the fetch fails
CredOnErrorCleared(c) == NilCred

\* refreshCred that invalidates the stored credential when the fetch fails
CredOnErrorInvalidated(c) == [c EXCEPT !.exp = ZeroTime]

\* refreshCred: what u.cred points to after getCredentials returned an error
CredOnError(c) == c

\* Credentials that hands out u.getCred() itself
ReturnedStored(c) == [kind |-> "ok", err |-> ErrNone, val |-> c, aliased |-> TRUE]

\* Credentials: the pointer handed to the caller, &cred of a fresh copy
Returned(c) == [kind |-> "ok", err |-> ErrNone, val |-> DeepCopy(c), aliased |-> FALSE]

Bump(f, p, to) == [f EXCEPT ![p] = IF to = "fetching" THEN @ + 1 ELSE @]

\* ------------------------------------------------- Credentials(ctx), by c
\* Credentials -> Expired -> expired(0) -> expiration -> getCred: RLock
CredentialsBegin(c) ==
  /\ pc[c] = "idle"
  /\ CanRLock(c)
  /\ lockForCred' = RLock(c)
  /\ pc' = [pc EXCEPT ![c] = "expRead"]
  /\ nfetch' = [nfetch EXCEPT ![c] = 0]
  /\ sawExpired' = [sawExpired EXCEPT ![c] = FALSE]
  /\ fetchErr' = [fetchErr EXCEPT ![c] = ErrNone]
  /\ ret' = [ret EXCEPT ![c] = NoRet]
  /\ UNCHANGED <<now, config, cred, fetched, loopVars>>

\* getCred: read, RUnlock; expired(0); then refreshCred's getCredentials call or getCred
CredentialsExpired(c) ==
  /\ pc[c] = "expRead"
  /\ \E v \in Load(c) :
       LET e == expired(v, 0)
           to == AfterExpired(e)
       IN /\ sawExpired' = [sawExpired EXCEPT ![c] = e]
          /\ pc' = [pc EXCEPT ![c] = to]
          /\ nfetch' = Bump(nfetch, c, to)
  /\ lockForCred' = RUnlock(c)
  /\ UNCHANGED <<now, config, cred, fetched, fetchErr, ret, loopVars>>

\* refreshCred: getCredentials returns a credential whose lifetime is one of
\* lifetimes (in refreshCredForLoop this is the last turn of the for loop)
FetchOkWith(p, lifetimes) ==
  /\ pc[p] = "fetching"
  /\ \E d \in lifetimes, m \in Monos :
       fetched' = [fetched EXCEPT ![p] =
                     [nil |-> FALSE, key |-> now + d,
                      exp |-> [wall |-> now + d, mono |-> m]]]
  /\ pc' = [pc EXCEPT ![p] = "setLock"]
  /\ i' = IF p = Loop THEN 0 ELSE i
  /\ UNCHANGED <<now, config, cred, lockForCred, ghost, ret, started,
                 loops, cancelled, wakeAt, tickPending, nextTick>>

FetchOk(p) == FetchOkWith(p, Lifetimes)

\* refreshCred: getCredentials returns an error; Credentials returns nil, err
FetchErr(c, err) ==
  /\ pc[c] = "fetching"
  /\ LET to == AfterRefresh(err)
     IN /\ pc' = [pc EXCEPT ![c] = to]
        /\ nfetch' = Bump(nfetch, c, to)
        /\ ret' = [ret EXCEPT ![c] =
                     IF to = "idle"
                     THEN [kind |-> "err", err |-> err, val |-> NilCred, aliased |-> FALSE]
                     ELSE @]
  /\ fetchErr' = [fetchErr EXCEPT ![c] = err]
  /\ cred' = CredOnError(cred)
  /\ UNCHANGED <<now, config, lockForCred, fetched, sawExpired, loopVars>>

\* setCred: u.lockForCred.Lock()
setCredLock(p) ==
  /\ pc[p] = "setLock"
  /\ CanLock(p)
  /\ lockForCred' = [lockForCred EXCEPT !.w = p]
  /\ pc' = [pc EXCEPT ![p] = "setStore"]
  /\ UNCHANGED <<now, config, cred, fetched, ghost, ret, loopVars>>

\* setCred: copy, Round(0), subtract the window, u.cred = &cred, Unlock; then
\* Credentials goes on to getCred and refreshCredForLoop returns
setCred(p) ==
  /\ pc[p] = "setStore"
  /\ cred' = Stored(fetched[p])
  /\ lockForCred' = [lockForCred EXCEPT !.w = None]
  /\ fetched' = [fetched EXCEPT ![p] = NilCred]
  /\ pc' = [pc EXCEPT ![p] = IF p = Loop THEN "wait" ELSE AfterRefresh(ErrNone)]
  /\ ret' = [c \in Callers |-> [ret[c] EXCEPT !.aliased = FALSE]]
  /\ UNCHANGED <<now, config, ghost, loopVars>>

\* Credentials -> getCred: RLock
getCredRLock(c) ==
  /\ pc[c] = "get"
  /\ CanRLock(c)
  /\ lockForCred' = RLock(c)
  /\ pc' = [pc EXCEPT ![c] = "getRead"]
  /\ UNCHANGED <<now, config, cred, fetched, ghost, ret, loopVars>>

\* getCred: read, RUnlock; DeepCopy; return &cred, nil.  DeepCopy of a nil
\* pointer is a nil pointer dereference.
CredentialsReturn(c) ==
  /\ pc[c] = "getRead"
  /\ \E v \in Load(c) :
       IF v.nil
       THEN /\ pc' = [pc EXCEPT ![c] = "panic"]
            /\ ret' = ret
       ELSE /\ pc' = [pc EXCEPT ![c] = "idle"]
            /\ ret' = [ret EXCEPT ![c] = Returned(v)]
  /\ lockForCred' = RUnlock(c)
  /\ UNCHANGED <<now, config, cred, fetched, ghost, loopVars>>

\* the caller overwrites the fields of the credential it was handed
MutateReturned(c) ==
  /\ pc[c] = "idle"
  /\ ret[c].kind = "ok"
  /\ ret[c].val # Scribbled
  /\ ret' = [ret EXCEPT ![c].val = Scribbled]
  /\ cred' = IF ret[c].aliased THEN Scribbled ELSE cred
  /\ UNCHANGED <<now, config, lockForCred, pc, fetched, ghost, loopVars>>

\* ------------------------------------------------------ the background loop
\* Start that only refuses a negative period
StartsLoopNonNegative == refreshPeriod >= 0

\* Start: the guard on u.refreshPeriod
StartsLoop == refreshPeriod > 0

\* Start(ctx): go u.startRefreshLoop(ctx), which makes its ticker and enters
\* refreshCredForLoop
Start ==
  /\ ~started
  /\ started' = TRUE
  /\ IF StartsLoop
     THEN /\ loops' = loops + 1
          /\ pc' = [pc EXCEPT ![Loop] = "check"]
          /\ nextTick' = now + refreshPeriod
     ELSE UNCHANGED <<loops, pc, nextTick>>
  /\ UNCHANGED <<now, config, cred, lockForCred, fetched, ghost, ret, cancelled, i, wakeAt, tickPending>>

\* the context given to Start is cancelled
Cancel ==
  /\ ~cancelled
  /\ cancelled' = TRUE
  /\ UNCHANGED <<now, config, cred, lockForCred, pc, fetched, ghost,
                 ret, started, loops, i, wakeAt, tickPending, nextTick>>

\* refreshCredForLoop -> expired(expiryWindowForRefreshLoop) -> getCred: RLock
\* (the read of line 86 only feeds the debug message)
refreshCredForLoopBegin ==
  /\ pc[Loop] = "check"
  /\ CanRLock(Loop)
  /\ lockForCred' = RLock(Loop)
  /\ pc' = [pc EXCEPT ![Loop] = "expRead"]
  /\ UNCHANGED <<now, config, cred, fetched, ghost, ret, loopVars>>

\* refreshCredForLoop without its expired check
refreshCredForLoopAlways ==
  /\ pc[Loop] = "expRead"
  /\ pc' = [pc EXCEPT ![Loop] = "fetching"]
  /\ i' = 0
  /\ lockForCred' = RUnlock(Loop)
  /\ UNCHANGED <<now, config, cred, fetched, ghost, ret, started, loops,
                 cancelled, wakeAt, tickPending, nextTick>>

\* refreshCredForLoop: not expired by the loop's window: return; otherwise the
\* first refreshCred of the retry loop, i = 0
refreshCredForLoopExpired ==
  /\ pc[Loop] = "expRead"
  /\ \E v \in Load(Loop) :
       pc' = [pc EXCEPT ![Loop] =
                IF expired(v, expiryWindowForRefreshLoop) THEN "fetching" ELSE "wait"]
  /\ i' = 0
  /\ lockForCred' = RUnlock(Loop)
  /\ UNCHANGED <<now, config, cred, fetched, ghost, ret, started, loops,
                 cancelled, wakeAt, tickPending, nextTick>>

\* refreshCredForLoop that treats *NotEnableError as any other error
LoopFetchNotEnableRetried ==
  /\ pc[Loop] = "fetching"
  /\ cred' = CredOnError(cred)
  /\ IF i < maxRetry - 1
     THEN /\ wakeAt' = now + Second * i
          /\ pc' = [pc EXCEPT ![Loop] = "sleep"]
          /\ i' = i
     ELSE /\ pc' = [pc EXCEPT ![Loop] = "wait"]
          /\ i' = 0
          /\ wakeAt' = wakeAt
  /\ UNCHANGED <<now, config, lockForCred, fetched, ghost, ret,
                 started, loops, cancelled, tickPending, nextTick>>

\* refreshCredForLoop: refreshCred returned *NotEnableError: return
LoopFetchNotEnable ==
  /\ pc[Loop] = "fetching"
  /\ pc' = [pc EXCEPT ![Loop] = "wait"]
  /\ i' = 0
  /\ cred' = CredOnError(cred)
  /\ UNCHANGED <<now, config, lockForCred, fetched, ghost, ret,
                 started, loops, cancelled, wakeAt, tickPending, nextTick>>

\* refreshCredForLoop that sleeps one second after every failed attempt
LoopFetchErrFlatBackoff ==
  /\ pc[Loop] = "fetching"
  /\ cred' = CredOnError(cred)
  /\ IF i < maxRetry - 1
     THEN /\ wakeAt' = now + Second
          /\ pc' = [pc EXCEPT ![Loop] = "sleep"]
          /\ i' = i
     ELSE /\ pc' = [pc EXCEPT ![Loop] = "wait"]
          /\ i' = 0
          /\ wakeAt' = wakeAt
  /\ UNCHANGED <<now, config, lockForCred, fetched, ghost, ret,
                 started, loops, cancelled, tickPending, nextTick>>

\* refreshCredForLoop: refreshCred returned another error: time.Sleep(i seconds),
\* or after the last attempt the for loop ends and the function returns
LoopFetchErr ==
  /\ pc[Loop] = "fetching"
  /\ cred' = CredOnError(cred)
  /\ IF i < maxRetry - 1
     THEN /\ wakeAt' = now + Second * i
          /\ pc' = [pc EXCEPT ![Loop] = "sleep"]
          /\ i' = i
     ELSE /\ pc' = [pc EXCEPT ![Loop] = "wait"]
          /\ i' = 0
          /\ wakeAt' = wakeAt
  /\ UNCHANGED <<now, config, lockForCred, fetched, ghost, ret,
                 started, loops, cancelled, tickPending, nextTick>>

\* refreshCredForLoop: time.Sleep returns, i++, the next refreshCred
LoopWake ==
  /\ pc[Loop] = "sleep"
  /\ now >= wakeAt
  /\ i' = i + 1
  /\ pc' = [pc EXCEPT ![Loop] = "fetching"]
  /\ wakeAt' = 0
  /\ UNCHANGED <<now, config, cred, lockForCred, fetched, ghost, ret,
                 started, loops, cancelled, tickPending, nextTick>>

\* startRefreshLoop: select takes case <-ticket.C
LoopTick ==
  /\ pc[Loop] = "wait"
  /\ tickPending
  /\ tickPending' = FALSE
  /\ pc' = [pc EXCEPT ![Loop] = "check"]
  /\ UNCHANGED <<now, config, cred, lockForCred, fetched, ghost, ret, started, loops, cancelled, i, wakeAt, nextTick>>

\* startRefreshLoop whose break leaves only the select: the for loop goes on
LoopExitBreaksSelect ==
  /\ pc[Loop] = "wait"
  /\ cancelled
  /\ UNCHANGED vars

\* startRefreshLoop: select takes case <-ctx.Done(); break loop; ticket.Stop()
LoopExit ==
  /\ pc[Loop] = "wait"
  /\ cancelled
  /\ pc' = [pc EXCEPT ![Loop] = "exited"]
  /\ tickPending' = FALSE
  /\ UNCHANGED <<now, config, cred, lockForCred, fetched, ghost, ret, started, loops, cancelled, i, wakeAt, nextTick>>

\* the goroutines whose getCredentials call has not returned
InFlight == {p \in Procs : pc[p] = "fetching"}

\* ------------------------------------------------------------------ clock
TickerRuns == pc[Loop] \notin {"off", "exited"}

\* a second passes, up to the horizon; a running ticker whose time has come puts
\* a tick in its channel (capacity 1) and rearms
AdvanceTo(horizon) ==
  /\ now < horizon
  /\ now' = now + 1
  /\ IF TickerRuns /\ now + 1 >= nextTick
     THEN /\ tickPending' = TRUE
          /\ nextTick' = nextTick + refreshPeriod
     ELSE UNCHANGED <<tickPending, nextTick>>
  /\ UNCHANGED <<config, cred, lockForCred, pc, fetched, ghost, ret, started, loops, cancelled, i, wakeAt>>

Advance == AdvanceTo(MaxTime)

Next ==
  \/ \E c \in Callers : CredentialsBegin(c) /\ UNCHANGED history
  \/ \E c \in Callers : CredentialsExpired(c) /\ UNCHANGED history
  \/ \E p \in Procs : FetchOk(p) /\ UNCHANGED history
  \/ \E c \in Callers, err \in {ErrNotEnable, ErrOther} : FetchErr(c, err) /\ UNCHANGED history
  \/ \E p \in Procs : setCredLock(p) /\ UNCHANGED history
  \/ \E p \in Procs : setCred(p) /\ UNCHANGED history
  \/ \E c \in Callers : getCredRLock(c) /\ UNCHANGED history
  \/ \E c \in Callers : CredentialsReturn(c) /\ UNCHANGED history
  \/ \E c \in Callers : MutateReturned(c) /\ UNCHANGED history
  \/ Start /\ UNCHANGED history
  \/ Cancel /\ UNCHANGED history
  \/ refreshCredForLoopBegin /\ UNCHANGED history
  \/ refreshCredForLoopExpired /\ UNCHANGED history
  \/ LoopFetchNotEnable /\ UNCHANGED history
  \/ LoopFetchErr /\ UNCHANGED history
  \/ LoopWake /\ UNCHANGED history
  \/ LoopTick /\ UNCHANGED history
  \/ LoopExit /\ UNCHANGED history
  \/ Advance /\ UNCHANGED history

Spec == Init /\ [][Next]_vars

\* ------------------------------------- the background loop over a longer time
\* what a step does to the loop's refreshCredForLoop call
CycleBegins == pc[Loop] # "check" /\ pc'[Loop] = "check"
CycleEnds == pc[Loop] \notin {"off", "wait", "exited"} /\ pc'[Loop] = "wait"
LoopInvokes == pc[Loop] # "fetching" /\ pc'[Loop] = "fetching"
LoopSleeps == pc[Loop] # "sleep" /\ pc'[Loop] = "sleep"

\* how refreshCredForLoop returns: from its expired check, after setCred, or
\* from the for loop with the error err of its last refreshCred
EndOfCycle(err) ==
  CASE pc[Loop] = "expRead" -> "skipped"
    [] pc[Loop] = "setStore" -> "stored"
    [] OTHER -> IF err = ErrNotEnable THEN "notEnable" ELSE "exhausted"

\* the history of the loop's cycles; err is the error the step's refreshCred
\* returned to refreshCredForLoop, if it is such a step
ObserveCycle(err) ==
  /\ cycles' = IF CycleBegins THEN cycles + 1 ELSE cycles
  /\ attempts' = IF CycleBegins \/ CycleEnds THEN 0
                 ELSE IF LoopInvokes THEN attempts + 1 ELSE attempts
  /\ sleeps' = IF CycleBegins \/ CycleEnds THEN <<>>
               ELSE IF LoopSleeps THEN Append(sleeps, wakeAt' - now) ELSE sleeps
  /\ cycleEnd' = IF CycleBegins THEN "none"
                 ELSE IF CycleEnds THEN EndOfCycle(err) ELSE cycleEnd
  /\ UNCHANGED <<late, slow, overlapped>>

\* one caller and the loop, every outcome of a fetch, MaxTimeLoop seconds
NextLoop ==
  \/ \E c \in LoopCallers : CredentialsBegin(c) /\ ObserveCycle(ErrNone)
  \/ \E c \in LoopCallers : CredentialsExpired(c) /\ ObserveCycle(ErrNone)
  \/ \E p \in LoopCallers \cup {Loop} : FetchOkWith(p, LifetimesLoop) /\ ObserveCycle(ErrNone)
  \/ \E c \in LoopCallers, err \in {ErrNotEnable, ErrOther} : FetchErr(c, err) /\ ObserveCycle(ErrNone)
  \/ \E p \in LoopCallers \cup {Loop} : setCredLock(p) /\ ObserveCycle(ErrNone)
  \/ \E p \in LoopCallers \cup {Loop} : setCred(p) /\ ObserveCycle(ErrNone)
  \/ \E c \in LoopCallers : getCredRLock(c) /\ ObserveCycle(ErrNone)
  \/ \E c \in LoopCallers : CredentialsReturn(c) /\ ObserveCycle(ErrNone)
  \/ Start /\ ObserveCycle(ErrNone)
  \/ Cancel /\ ObserveCycle(ErrNone)
  \/ refreshCredForLoopBegin /\ ObserveCycle(ErrNone)
  \/ refreshCredForLoopExpired /\ ObserveCycle(ErrNone)
  \/ LoopFetchNotEnable /\ ObserveCycle(ErrNotEnable)
  \/ LoopFetchErr /\ ObserveCycle(ErrOther)
  \/ LoopWake /\ ObserveCycle(ErrNone)
  \/ LoopTick /\ ObserveCycle(ErrNone)
  \/ LoopExit /\ ObserveCycle(ErrNone)
  \/ AdvanceTo(MaxTimeLoop) /\ ObserveCycle(ErrNone)

SpecLoop == Init /\ [][NextLoop]_vars

\* ------------------------------------------- a fetch capability that never fails
\* no tick is waiting in ticket.C and none is being examined
TicksTaken == ~tickPending /\ pc[Loop] \notin {"check", "expRead"}
\* no goroutine is between invoking a fetch and storing its result
NoneRefreshing == \A p \in Procs : pc[p] \notin {"fetching", "setLock", "setStore"}

\* the history of the refreshes' timing
ObserveTiming ==
  /\ cycles' = IF CycleBegins THEN cycles + 1 ELSE cycles
  /\ late' = (late \/ (now' # now /\ ~TicksTaken))
  /\ slow' = (slow \/ (now' # now /\ ~NoneRefreshing))
  /\ overlapped' = (overlapped \/ \E p \in Procs :
                       /\ pc[p] # "fetching"
                       /\ pc'[p] = "fetching"
                       /\ InFlight # {})
  /\ UNCHANGED <<attempts, sleeps, cycleEnd>>

\* one caller and the loop, every fetch succeeds with the long lifetime
NextSteady ==
  \/ \E c \in LoopCallers : CredentialsBegin(c) /\ ObserveTiming
  \/ \E c \in LoopCallers : CredentialsExpired(c) /\ ObserveTiming
  \/ \E p \in LoopCallers \cup {Loop} : FetchOkWith(p, LifetimesSteady) /\ ObserveTiming
  \/ \E p \in LoopCallers \cup {Loop} : setCredLock(p) /\ ObserveTiming
  \/ \E p \in LoopCallers \cup {Loop} : setCred(p) /\ ObserveTiming
  \/ \E c \in LoopCallers : getCredRLock(c) /\ ObserveTiming
  \/ \E c \in LoopCallers : CredentialsReturn(c) /\ ObserveTiming
  \/ Start /\ ObserveTiming
  \/ Cancel /\ ObserveTiming
  \/ refreshCredForLoopBegin /\ ObserveTiming
  \/ refreshCredForLoopExpired /\ ObserveTiming
  \/ LoopTick /\ ObserveTiming
  \/ LoopExit /\ ObserveTiming
  \/ AdvanceTo(MaxTimeLoop) /\ ObserveTiming

SpecSteady == Init /\ [][NextSteady]_vars

\* --------------------- a fetch capability that always returns *NotEnableError
\* one caller and the loop; nothing is ever fetched, so nothing is stored and
\* the loop never sleeps
NextNotEnable ==
  \/ \E c \in LoopCallers : CredentialsBegin(c) /\ ObserveCycle(ErrNone)
  \/ \E c \in LoopCallers : CredentialsExpired(c) /\ ObserveCycle(ErrNone)
  \/ \E c \in LoopCallers : FetchErr(c, ErrNotEnable) /\ ObserveCycle(ErrNone)
  \/ Start /\ ObserveCycle(ErrNone)
  \/ Cancel /\ ObserveCycle(ErrNone)
  \/ refreshCredForLoopBegin /\ ObserveCycle(ErrNone)
  \/ refreshCredForLoopExpired /\ ObserveCycle(ErrNone)
  \/ LoopFetchNotEnable /\ ObserveCycle(ErrNotEnable)
  \/ LoopTick /\ ObserveCycle(ErrNone)
  \/ LoopExit /\ ObserveCycle(ErrNone)
  \/ AdvanceTo(MaxTimeLoop) /\ ObserveCycle(ErrNone)

SpecNotEnable == Init /\ [][NextNotEnable]_vars

\* ------------------------------------------------------ fair scheduling
\* time.Sleep returns although the clock of the model has stopped: at the horizon
\* the clock value no longer changes, but time still passes
LoopWakePastHorizon(horizon) ==
  /\ pc[Loop] = "sleep"
  /\ now = horizon
  /\ now < wakeAt
  /\ i' = i + 1
  /\ pc' = [pc EXCEPT ![Loop] = "fetching"]
  /\ wakeAt' = 0
  /\ UNCHANGED <<now, config, cred, lockForCred, fetched, ghost, ret,
                 started, loops, cancelled, tickPending, nextTick>>

\* steps of a caller's Credentials(ctx) call
CallerStep(c) ==
  /\ \/ CredentialsBegin(c)
     \/ FetchOk(c)
     \/ \E err \in {ErrNotEnable, ErrOther} : FetchErr(c, err)
     \/ setCredLock(c)
     \/ getCredRLock(c)
  /\ UNCHANGED history

\* the steps in which a caller leaves the lock it holds
CallerUnlocks(c) ==
  /\ \/ CredentialsExpired(c)
     \/ setCred(c)
     \/ CredentialsReturn(c)
  /\ UNCHANGED history

\* the loop's getCredentials call returns, with a credential or an error
LoopFetchReturns ==
  /\ \/ FetchOk(Loop)
     \/ LoopFetchNotEnable
     \/ LoopFetchErr
  /\ UNCHANGED history

\* the loop acquires lockForCred
LoopLocks ==
  /\ \/ refreshCredForLoopBegin
     \/ setCredLock(Loop)
  /\ UNCHANGED history

\* the loop's steps that wait for nothing but the scheduler or the end of a sleep
LoopRuns ==
  /\ \/ refreshCredForLoopExpired
     \/ setCred(Loop)
     \/ LoopWake
     \/ LoopWakePastHorizon(MaxTime)
  /\ UNCHANGED history

LoopTakesTick == LoopTick /\ UNCHANGED history
LoopTakesDone == LoopExit /\ UNCHANGED history
TimePasses == Advance /\ UNCHANGED history

NextLive ==
  \/ \E c \in LoopCallers : CallerStep(c)
  \/ \E c \in LoopCallers : CallerUnlocks(c)
  \/ Start /\ UNCHANGED history
  \/ Cancel /\ UNCHANGED history
  \/ LoopFetchReturns
  \/ LoopLocks
  \/ LoopRuns
  \/ LoopTakesTick
  \/ LoopTakesDone
  \/ TimePasses

\* the scheduler runs every goroutine that can run, time passes, the fetch
\* invoked by the loop returns, sync.RWMutex starves no goroutine, and a select
\* with several ready cases picks each of them sooner or later
Fairness ==
  /\ \A c \in LoopCallers : WF_vars(CallerUnlocks(c))
  /\ WF_vars(TimePasses)
  /\ WF_vars(LoopFetchReturns)
  /\ WF_vars(LoopRuns)
  /\ SF_vars(LoopLocks)
  /\ SF_vars(LoopTakesDone)

SpecLive == Init /\ [][NextLive]_vars /\ Fairness

\* ================================================================ claims
\* the raw expiration the fetch capability gave the credential c
Raw(c) == c.key

\* c is a credential exactly as some setCred stored it
WellFormed(c) ==
  /\ ~c.nil
  /\ ~c.exp.mono
  /\ c.exp.wall = Raw(c) - (IF expiryWindow > 0 THEN expiryWindow ELSE 0)

Returns(c) == pc[c] = "getRead" /\ pc'[c] = "idle"
Checks(c) == pc[c] = "expRead" /\ pc'[c] # "expRead"

\* C1 as stated: Expired() is true iff now >= E - W, true also at now = E - W and
\* while nothing is stored.
C1_ExpiredAtBoundary ==
  Expired <=> (cred.nil \/ now >= Raw(cred) - expiryWindow)

\* C1 amended: Expired() is true iff now > E - W (or nothing is stored): at the
\* instant now = E - W the credential is not yet expired.
C1_ExpiredIffPast ==
  Expired <=> (cred.nil \/ now > Raw(cred) - expiryWindow)

C1_Witness ==
  /\ ~cred.nil
  /\ expiryWindow > 0
  /\ now = Raw(cred) - expiryWindow
  /\ ~Expired
  /\ \E c \in Callers : pc[c] = "idle" /\ ret[c].kind = "ok" /\ ~sawExpired[c]

\* C2: a Credentials(ctx) call whose u.Expired() returned false invokes the fetch
\* capability zero times and returns the stored credential.
C2_FreshCallDoesNotFetch ==
  /\ [](\A c \in Callers : ~sawExpired[c] => nfetch[c] = 0 /\ fetchErr[c] = ErrNone)
  /\ [][\A c \in Callers :
          (Returns(c) /\ ~sawExpired[c]) =>
             /\ nfetch'[c] = 0
             /\ ret'[c].kind = "ok"
             /\ ret'[c].val = cred]_vars

C2_Witness ==
  \E c \in Callers :
    /\ pc[c] = "idle"
    /\ ret[c].kind = "ok"
    /\ ~sawExpired[c]
    /\ nfetch[c] = 0
    /\ ret[c].val = cred

\* C3: a Credentials(ctx) call whose u.Expired() returned true invokes the fetch
\* capability exactly once, whether the fetch succeeds or fails, and a call that
\* checks before the stored credential's served expiration invokes it zero times.
C3_ExpiredCallFetchesOnce ==
  /\ [](\A c \in Callers : sawExpired[c] => nfetch[c] = 1)
  /\ [][\A c \in Callers :
          Checks(c) =>
            IF ~cred.nil /\ now < cred.exp.wall
            THEN ~sawExpired'[c] /\ nfetch'[c] = 0 /\ pc'[c] = "get"
            ELSE (cred.nil \/ now > cred.exp.wall) =>
                    (sawExpired'[c] /\ nfetch'[c] = 1 /\ pc'[c] = "fetching")]_vars

C3_Witness ==
  \E c, d \in Callers :
    /\ pc[c] = "idle" /\ ret[c].kind = "ok" /\ sawExpired[c] /\ nfetch[c] = 1
    /\ pc[d] = "idle" /\ ret[d].kind = "ok" /\ ~sawExpired[d] /\ nfetch[d] = 0
    /\ ~cred.nil /\ now < cred.exp.wall

\* C4: when the fetch capability returns an error during Credentials(ctx), the call
\* returns that error and no credential, and leaves the stored credential as it was.
C4_FetchErrorPropagates ==
  /\ [](\A c \in Callers :
          fetchErr[c] # ErrNone =>
             /\ pc[c] = "idle"
             /\ ret[c] = [kind |-> "err", err |-> fetchErr[c], val |-> NilCred,
                          aliased |-> FALSE])
  /\ [][\A c \in Callers :
          (pc[c] = "fetching" /\ fetchErr'[c] # ErrNone) => cred' = cred]_vars

C4_Witness ==
  \E c \in Callers :
    /\ pc[c] = "idle"
    /\ ret[c].kind = "err"
    /\ ret[c].err = ErrNotEnable
    /\ ~cred.nil

\* C5 as stated: at no time are two invocations of the fetch capability in flight.
C5_OneFetchInFlight == Cardinality(InFlight) <= 1

\* C6 as stated: a credential that Credentials(ctx) returns is not expired by the
\* serving window at the moment it is returned, now < E - expiryWindow.
C6_ReturnedNotExpired ==
  [][\A c \in Callers :
       Returns(c) => now < Raw(ret'[c].val) - expiryWindow]_vars

\* C7 as stated: once the context given to Start is cancelled, a background task
\* that is waiting for the next tick or sleeping in a retry backoff stops: the
\* next thing it does is exit, not a further fetch attempt, check or sleep.
\* (time.Sleep(0), after the first failure, is no wait and is left out.)
C7_StopsPromptlyOnCancel ==
  [][(cancelled /\ (pc[Loop] = "wait" \/ (pc[Loop] = "sleep" /\ i > 0))) =>
        pc'[Loop] \in {pc[Loop], "exited"}]_vars

\* C8: replacement of the stored credential is linearizable: no reader is inside
\* getCred while a writer is inside setCred, what is stored is always a credential
\* exactly as one setCred wrote it (or nil), and every getCred yields the value
\* stored at that moment, the latest completed write.
C8_ReplacementLinearizable ==
  /\ [](/\ (lockForCred.w # None => lockForCred.r = {})
        /\ (cred.nil \/ WellFormed(cred)))
  /\ [][\A c \in Callers :
          /\ Returns(c) => (ret'[c].val = cred /\ WellFormed(ret'[c].val))
          /\ Checks(c) => sawExpired'[c] = Expired]_vars

C8_Witness ==
  \E c, d \in Callers :
    /\ c # d
    /\ pc[d] = "get" /\ sawExpired[d]
    /\ pc[c] = "idle" /\ ret[c].kind = "ok" /\ ~sawExpired[c]
    /\ ret[c].val = cred

\* C9: Start launches one background task when the refresh period is > 0 and none
\* otherwise; with a period <= 0 the background task never exists, so only
\* Credentials(ctx) calls fetch.
C9_StartLaunchesLoopIffPeriodPositive ==
  /\ refreshPeriod <= 0 => (loops = 0 /\ pc[Loop] = "off" /\ fetched[Loop] = NilCred)
  /\ ~started => (loops = 0 /\ pc[Loop] = "off")
  /\ (started /\ refreshPeriod > 0) => (loops = 1 /\ pc[Loop] # "off")

C9_Witness ==
  /\ started
  /\ refreshPeriod = 0
  /\ now = MaxTime
  /\ pc[Loop] = "off"
  /\ \E c \in Callers : pc[c] = "fetching"

\* C10: what Credentials(ctx) returns is a copy: a caller overwriting the credential
\* it was handed changes neither the stored credential nor what another call
\* returned or will return.
C10_ReturnedIsCopy ==
  /\ [](cred # Scribbled /\ \A c \in Callers : ~ret[c].aliased)
  /\ [][\A c \in Callers :
          /\ (pc[c] = "idle" /\ ret[c].kind = "ok" /\ ret'[c].val # ret[c].val
                /\ pc'[c] = "idle") =>
                (cred' = cred /\ \A d \in Callers \ {c} : ret'[d] = ret[d])
          /\ Returns(c) => ret'[c].val # Scribbled]_vars

C10_Witness ==
  \E c, d \in Callers :
    /\ c # d
    /\ ret[c].kind = "ok" /\ ret[c].val = Scribbled
    /\ pc[d] = "idle" /\ ret[d].kind = "ok" /\ ret[d].val = cred /\ ~sawExpired[d]

\* the loop's first refreshCredForLoop call has returned
Warm == cycles >= 2 \/ (cycles = 1 /\ pc[Loop] = "wait")
LoopRunning == pc[Loop] \notin {"off", "exited"}

\* C11 as stated: with the loop running, every tick taken in the second it fires,
\* every fetch succeeding with the long lifetime and the cache populated by the
\* loop's first cycle, no Credentials(ctx) call finds the credential expired or
\* invokes the fetch capability.
C11_HappyPathNeverFetches ==
  [][\A c \in Callers :
       (Checks(c) /\ LoopRunning /\ Warm /\ ~cred.nil /\ ~late) =>
          (~sawExpired'[c] /\ nfetch'[c] = 0)]_vars

\* C11 amended: the same, provided also that no fetch has been left outstanding
\* while the clock advanced: every fetch returns and is stored within the second
\* it was invoked.
C11_PromptHappyPathNeverFetches ==
  [][\A c \in Callers :
       (Checks(c) /\ LoopRunning /\ Warm /\ ~cred.nil /\ ~late /\ ~slow) =>
          (~sawExpired'[c] /\ nfetch'[c] = 0)]_vars

C11_Witness ==
  /\ ~late
  /\ ~slow
  /\ LoopRunning
  /\ cycles >= 3
  /\ now >= 6
  /\ Raw(cred) > 6
  /\ \E c \in Callers :
       pc[c] = "idle" /\ ret[c].kind = "ok" /\ ~sawExpired[c] /\ nfetch[c] = 0

\* C12: one refreshCredForLoop call invokes the fetch capability until the first
\* success or *NotEnableError and at most 5 times; after the failed attempt with
\* index i < 4 it sleeps i seconds (0, 1, 2, 3) before the next attempt, and
\* after the 5th failure it returns without sleeping.
C12_RetriesWithBackoff ==
  /\ [](attempts <= 5)
  /\ [](pc[Loop] \in {"fetching", "sleep"} => attempts = i + 1)
  /\ [](pc[Loop] \in {"fetching", "sleep", "setLock", "setStore"} =>
          /\ Len(sleeps) \in {attempts - 1, attempts}
          /\ Len(sleeps) <= 4
          /\ \A k \in 1..Len(sleeps) : sleeps[k] = k - 1)
  /\ [][(pc[Loop] = "fetching" /\ pc'[Loop] = "sleep") =>
          (attempts < 5 /\ wakeAt' = now + (attempts - 1))]_vars
  /\ [][(pc[Loop] = "sleep" /\ pc'[Loop] # "sleep") =>
          (now >= wakeAt /\ pc'[Loop] = "fetching" /\ attempts' = attempts + 1)]_vars
  /\ [][(pc[Loop] = "fetching" /\ pc'[Loop] = "wait") =>
          \/ cycleEnd' = "notEnable"
          \/ cycleEnd' = "exhausted" /\ attempts = 5 /\ sleeps = <<0, 1, 2, 3>>]_vars
  /\ [][(pc[Loop] \in {"setLock", "setStore"}) =>
          pc'[Loop] \in {"setLock", "setStore", "wait"}]_vars

\* the fifth attempt has failed: five fetches, sleeps of 0, 1, 2 and 3 seconds
C12_Witness ==
  /\ pc[Loop] = "wait"
  /\ cycleEnd = "exhausted"
  /\ now >= 7

\* three failures, then the credential of the fourth attempt is being stored
C12_StoredOnFourthAttempt ==
  /\ pc[Loop] = "setStore"
  /\ attempts = 4
  /\ sleeps = <<0, 1, 2>>

\* C13: with a fetch capability that always returns *NotEnableError, every
\* refreshCredForLoop call (the first one and the one of each tick) invokes it
\* exactly once, never sleeps and never retries; the loop goes back to its select
\* and leaves it only on a tick or on cancellation, and nothing is ever stored.
C13_NotEnableOncePerCycle ==
  /\ [](cred = NilCred)
  /\ [](attempts <= 1 /\ sleeps = <<>> /\ wakeAt = 0)
  /\ [](pc[Loop] \in {"off", "check", "expRead", "fetching", "wait", "exited"})
  /\ [](cycleEnd \in {"none", "notEnable"})
  /\ [](pc[Loop] = "exited" => cancelled)
  /\ []((pc[Loop] = "wait" /\ tickPending) => ENABLED LoopTick)
  /\ [][CycleEnds =>
          /\ pc[Loop] = "fetching"
          /\ attempts = 1
          /\ cycleEnd' = "notEnable"
          /\ cred' = cred]_vars

\* the loop has been through three cycles, each ended by the Terminal error
C13_Witness ==
  /\ cycles >= 3
  /\ pc[Loop] = "wait"
  /\ cycleEnd = "notEnable"
  /\ cred = NilCred

\* the loop, on a tick, leaves its expired check
TickChecks == pc[Loop] = "expRead" /\ pc'[Loop] # "expRead" /\ cycles >= 2

\* C14 as stated: on a tick the loop starts a refresh iff now is past E - (P + P/2),
\* whatever the serving window; otherwise it invokes no fetch and leaves the
\* stored credential alone.
C14_TickRefreshesWithinLoopWindow ==
  [][(TickChecks /\ ~cred.nil) =>
       /\ (pc'[Loop] = "fetching") <=>
            (now > Raw(cred) - (refreshPeriod + (refreshPeriod \div 2)))
       /\ pc'[Loop] \in {"fetching", "wait"}
       /\ cred' = cred]_vars

\* C14 amended: on a tick the loop starts a refresh iff nothing is stored or now
\* is past E - W - (P + P/2), the window being counted from the stored, already
\* shortened expiration E - W; otherwise it invokes no fetch and leaves the stored
\* credential alone.
C14_TickRefreshesWithinBothWindows ==
  [][TickChecks =>
       /\ (pc'[Loop] = "fetching") <=>
            \/ cred.nil
            \/ now > Raw(cred) - expiryWindow - (refreshPeriod + (refreshPeriod \div 2))
       /\ pc'[Loop] \in {"fetching", "wait"}
       /\ attempts' = (IF pc'[Loop] = "fetching" THEN 1 ELSE 0)
       /\ cred' = cred]_vars

\* a tick was skipped with a serving window, and the tick before it was not
C14_Witness ==
  /\ expiryWindow > 0
  /\ cycles >= 3
  /\ pc[Loop] = "wait"
  /\ cycleEnd = "skipped"
  /\ ~cred.nil
  /\ Raw(cred) > 6

\* C15 as stated: the loop's first refreshCredForLoop call, made before it waits
\* for the first tick, invokes the fetch capability at least once whatever is
\* stored at Start: it never returns from its expired check.
C15_StartAlwaysFetches ==
  (cycles = 1 /\ pc[Loop] = "wait") => cycleEnd # "skipped"

\* C15 amended: the loop's first refreshCredForLoop call invokes the fetch
\* capability iff nothing is stored or now is past E - W - (P + P/2); with a
\* credential stored that is fresher than that it returns without a fetch and the
\* loop waits for the first tick.
C15_StartFetchesUnlessFresh ==
  /\ [](cycles = 0 <=> pc[Loop] = "off")
  /\ [][(pc[Loop] = "expRead" /\ pc'[Loop] # "expRead" /\ cycles = 1) =>
          /\ (pc'[Loop] = "fetching") <=>
               \/ cred.nil
               \/ now > Raw(cred) - expiryWindow - (refreshPeriod + (refreshPeriod \div 2))
          /\ pc'[Loop] \in {"fetching", "wait"}
          /\ attempts' = (IF pc'[Loop] = "fetching" THEN 1 ELSE 0)]_vars

\* a caller stored a fresh credential before Start, and the first cycle skipped
C15_Witness ==
  /\ cycles = 1
  /\ pc[Loop] = "wait"
  /\ cycleEnd = "skipped"
  /\ ~tickPending
  /\ \E c \in Callers : ret[c].kind = "ok" /\ ret[c].val = cred

\* C16: no goroutine holds the credential lock while its fetch is in flight; the
\* write lock is held only inside setCred and the read lock only inside getCred.
\* So each step of a Credentials(ctx) call that found the credential fresh can be
\* taken whenever no goroutine is inside setCred's critical section, whatever
\* fetches are outstanding and whichever other readers hold the read lock.
C16_FetchOutsideLock ==
  /\ \A p \in Procs :
       pc[p] = "fetching" => (lockForCred.w # p /\ p \notin lockForCred.r)
  /\ lockForCred.w # None => pc[lockForCred.w] = "setStore"
  /\ \A p \in lockForCred.r : pc[p] \in {"expRead", "getRead"}
  /\ \A c \in Callers :
       lockForCred.w = None =>
          /\ pc[c] = "idle" => ENABLED CredentialsBegin(c)
          /\ pc[c] = "expRead" => ENABLED CredentialsExpired(c)
          /\ pc[c] = "get" => ENABLED getCredRLock(c)
          /\ pc[c] = "getRead" => ENABLED CredentialsReturn(c)

\* a fetch of the loop is outstanding while both callers are inside getCred, one
\* of them about to return the fresh credential without having fetched
C16_Witness ==
  /\ pc[Loop] = "fetching"
  /\ lockForCred.r = Callers
  /\ \E c \in Callers : pc[c] = "getRead" /\ ~sawExpired[c] /\ nfetch[c] = 0 /\ ~cred.nil

\* the loop's last refreshCredForLoop call ended with every attempt failed
CycleFailed == cycleEnd \in {"notEnable", "exhausted"}

\* C17: a failed attempt of the loop, the sleep after it and the return of a
\* cycle whose attempts all failed leave the stored credential unchanged; after
\* such a cycle a Credentials(ctx) call made while the stored credential is not
\* expired by the serving window (now <= E - W) invokes no fetch and returns the
\* stored credential without error.
C17_FailedCycleKeepsCredential ==
  /\ [][(pc[Loop] \in {"fetching", "sleep"} /\ pc'[Loop] \in {"fetching", "sleep", "wait"}
         /\ pc'[Loop] # pc[Loop]) => cred' = cred]_vars
  /\ [][\A c \in Callers :
          (Checks(c) /\ CycleFailed /\ ~cred.nil /\ now <= Raw(cred) - expiryWindow) =>
             (~sawExpired'[c] /\ nfetch'[c] = 0 /\ pc'[c] = "get")]_vars
  /\ [][\A c \in Callers :
          (Returns(c) /\ CycleFailed /\ ~sawExpired[c]) =>
             /\ ret'[c].kind = "ok"
             /\ ret'[c].err = ErrNone
             /\ ret'[c].val = cred
             /\ nfetch'[c] = 0
             /\ cred' = cred]_vars

\* after a cycle ended by the Terminal error, a caller has been handed the stored
\* credential, at the last second it is servable, without a fetch
C17_Witness ==
  /\ pc[Loop] = "wait"
  /\ cycleEnd = "notEnable"
  /\ cycles >= 2
  /\ ~cred.nil
  /\ now = Raw(cred) - expiryWindow
  /\ \E c \in Callers :
       /\ pc[c] = "idle"
       /\ ret[c].kind = "ok"
       /\ ret[c].val = cred
       /\ ~sawExpired[c]
       /\ nfetch[c] = 0

\* C18: under fair scheduling, with every fetch of the loop returning, once the
\* context given to Start is cancelled the background task eventually exits, and
\* once exited it stays so: it takes no further step, fetches nothing and writes
\* nothing.
C18_CancelLeadsToExit ==
  /\ (cancelled /\ pc[Loop] # "off") ~> (pc[Loop] = "exited")
  /\ [][pc[Loop] = "exited" =>
          /\ pc'[Loop] = "exited"
          /\ fetched'[Loop] = fetched[Loop]
          /\ lockForCred'.w # Loop]_vars

\* the loop has exited on cancellation, after it stored a credential
C18_Witness ==
  /\ cancelled
  /\ pc[Loop] = "exited"
  /\ loops = 1
  /\ ~cred.nil

\* C19 as stated: when the fetch capability returns expirations that do not
\* decrease in the order of its invocations (here: every fetch returns now + 5 and
\* no fetch was invoked while another was in flight, so that the fetches return
\* in the order they were invoked), no step replaces the stored credential by one
\* with an earlier raw expiration.
C19_ExpirationNeverMovesBack ==
  [][(~overlapped' /\ ~cred.nil /\ ~cred'.nil) => Raw(cred') >= Raw(cred)]_vars

====
